---- MODULE Spec2Model ----
(***************************************************************************)
(* PSoC 6 MCU: External Flash Access in XIP Mode (main.c).                 *)
(*                                                                         *)
(* One thread of control: board bring-up, serial-flash self-test (erase,   *)
(* read, write, read, compare), XIP transition, placement checks of two    *)
(* linker-placed symbols, LED blink loop.  check_status / check_address    *)
(* park the program with the LED on.                                       *)
(*                                                                         *)
(* The serial-flash driver, the BSP and the linker are the environment:    *)
(* the statuses they return, the bytes a read delivers and the addresses   *)
(* the symbols resolve to are drawn from small sets.                       *)
(***************************************************************************)
EXTENDS Integers, Sequences, FiniteSets, TLC

-----------------------------------------------------------------------------
(* Program constants *)

PACKET_SIZE == 64

\* smifMemConfigs[MEM_SLOT_NUM]->baseAddress, 0x18000000
BaseAddress == 402653184

CY_RSLT_SUCCESS == 0

-----------------------------------------------------------------------------
(* Bounds of the model *)

\* erase-sector size of the modelled device (cy_serial_flash_qspi_get_erase_size)
SectorSize == 66

\* number of erase sectors of the modelled device
NumSectors == 3

\* number of boots of the program in the re-run specification
MaxRuns == 2

-----------------------------------------------------------------------------
(* Environment value sets *)

FlashSize == NumSectors * SectorSize

FlashAddrs == 0 .. (FlashSize - 1)

PacketIdx == 0 .. (PACKET_SIZE - 1)

\* error codes a driver call may return instead of CY_RSLT_SUCCESS
ErrorCodes == {1, 67239937}

\* the environment of one program: no fault, or one fault of the board or the
\* device: a call that reports an error code, an erase or write that reports
\* success and leaves the device as it was, a write that stores a first byte
\* with a stuck bit, a read that reports success and delivers zeros or a
\* packet whose last byte is wrong
NoFault == [at |-> "none", kind |-> "none", code |-> 0]

StatusFaults ==
    { [at |-> op, kind |-> "status", code |-> c] :
        op \in {"bsp", "init", "erase", "read1", "write", "read2"},
        c \in ErrorCodes }

SilentFaults ==
    { [at |-> "erase", kind |-> "noop", code |-> 0],
      [at |-> "write", kind |-> "noop", code |-> 0],
      [at |-> "write", kind |-> "stuck", code |-> 0],
      [at |-> "read1", kind |-> "zeros", code |-> 0],
      [at |-> "read1", kind |-> "lastbyte", code |-> 0],
      [at |-> "read2", kind |-> "zeros", code |-> 0],
      [at |-> "read2", kind |-> "lastbyte", code |-> 0] }

Faults == {NoFault} \cup StatusFaults \cup SilentFaults

\* A uint32_t is held by its 32-bit pattern read as a two's-complement
\* integer: 0x80000000 .. 0xFFFFFFFF appear as -2147483648 .. -1.
\* the unsigned order of two such values
ULess(a, b) == IF (a < 0) = (b < 0) THEN a < b ELSE b < 0

\* addresses the linker may give a symbol: internal flash (0x10000000), just
\* below the window, its first byte, its last byte, just above, and
\* the top of the address space (0xFFFFFFFF)
SymbolAddrs ==
    { 268435456, BaseAddress - 1, BaseAddress,
      BaseAddress + FlashSize - 1, BaseAddress + FlashSize, -1 }

\* contents of the device at power-up: blank, all zero, and an image
BlankFlash == [a \in FlashAddrs |-> 255]

ZeroFlash == [a \in FlashAddrs |-> 0]

ImageFlash == [a \in FlashAddrs |-> (7 * a + 3) % 256]

InitialFlash == {BlankFlash, ZeroFlash, ImageFlash}

ZeroBuffer == [i \in PacketIdx |-> 0]

ErasedBuffer == [i \in PacketIdx |-> 255]

-----------------------------------------------------------------------------
VARIABLES
    pc,             \* position of main
    led,            \* CYBSP_USER_LED: "OFF" or "ON"
    flash,          \* content of the external flash device
    txBuffer,       \* main's txBuffer
    rxBuffer,       \* main's rxBuffer
    extMemAddress,  \* main's extMemAddress
    sectorSize,     \* main's sectorSize
    xip,            \* the SMIF block is in XIP (memory-mapped) mode
    failMsg,        \* message of the FAIL block on the console, "" if none
    failCode,       \* error code / address of the FAIL block
    dump,           \* print_array outputs so far, in order
    calls,          \* driver operations and checks executed so far, in order
    hiWordAddr,     \* (uint32_t)&hi_word
    funcAddr,       \* (uint32_t)&print_from_external_memory
    fault,          \* the fault of the board or the device, NoFault if none
    debugBuild,     \* CY_ASSERT is compiled in (NDEBUG not defined)
    flash0,         \* content of the device when the program first booted
    run,            \* number of the current boot
    prevFlash,      \* content of the device when the previous boot ended
    prevOutcome,    \* program state in which the previous boot ended
    prevCalls       \* calls of the previous boot

vars == << pc, led, flash, txBuffer, rxBuffer, extMemAddress, sectorSize, xip,
           failMsg, failCode, dump, calls, hiWordAddr, funcAddr, fault,
           debugBuild, flash0, run, prevFlash, prevOutcome, prevCalls >>

env == << hiWordAddr, funcAddr, fault, debugBuild, flash0, run,
          prevFlash, prevOutcome, prevCalls >>

-----------------------------------------------------------------------------
(* Pure functions of main.c *)

\* check_status: TRUE iff the status makes it print FAIL, light the LED, halt
check_status_ignore(status) == FALSE

check_status(status) == 0 # status

\* check_address: TRUE iff the address makes it print FAIL, light the LED, halt
check_address_strict(base, addr) == ~ULess(base, addr)

check_address_signed(base, addr) == base > addr

check_address_never(base, addr) == FALSE

check_address(base, addr) == ULess(addr, base)

\* CY_ASSERT(cond): TRUE iff the assertion halts the program
CY_ASSERT(cond) == debugBuild /\ ~cond

\* txBuffer[index] = (uint8_t)(index & 0xFF)
TxPatternShifted == [index \in PacketIdx |-> (index + 1) % 256]

TxPattern == [index \in PacketIdx |-> index % 256]

\* extMemAddress = sectorSize: start of the second sector
TargetAddressZero(size) == 0

TargetAddress(size) == size

\* the status handed to check_status after the read that follows the erase
ReadAfterEraseValueChecked(result, buf) ==
    IF buf = ErasedBuffer THEN result ELSE 1

ReadAfterEraseStatus(result, buf) == result

\* the position main continues at after the second placement check
AfterPlacement == "blink_toggle"

\* the position the blink loop continues at after the delay
AfterDelayStop == "exit"

AfterDelay == "blink_toggle"

\* memcmp(a, b, n): zero iff the buffers agree, else an int with the sign of
\* the first differing pair (its magnitude is the library's choice: the byte
\* difference or +-1); the conversion to uint32_t keeps the bit pattern
FirstDiff(a, b, n) ==
    CHOOSE i \in 0 .. (n - 1) :
        a[i] # b[i] /\ \A j \in 0 .. (i - 1) : a[j] = b[j]

Sign(d) == IF d < 0 THEN -1 ELSE IF d > 0 THEN 1 ELSE 0

memcmp(a, b, n) ==
    IF \A i \in 0 .. (n - 1) : a[i] = b[i]
    THEN {0}
    ELSE LET d == a[FirstDiff(a, b, n)] - b[FirstDiff(a, b, n)]
         IN  { d, Sign(d) }

\* the statuses memcmp(txBuffer, rxBuffer, PACKET_SIZE) may hand check_status
CompareStatusShort(tx, rx) == memcmp(tx, rx, PACKET_SIZE - 1)

CompareStatus(tx, rx) == memcmp(tx, rx, PACKET_SIZE)

\* cyhal_gpio_toggle
Toggled(l) == IF l = "ON" THEN "OFF" ELSE "ON"

-----------------------------------------------------------------------------
(* The serial-flash device behind the driver calls *)

InRange(a, addr, len) == addr <= a /\ a < addr + len

\* cy_serial_flash_qspi_erase(addr, len) on a working device
ErasedIncomplete(f, addr, len) ==
    [a \in FlashAddrs |->
        IF InRange(a, addr, len) THEN (IF f[a] = 0 THEN 254 ELSE 255) ELSE f[a]]

Erased(f, addr, len) ==
    [a \in FlashAddrs |-> IF InRange(a, addr, len) THEN 255 ELSE f[a]]

\* cy_serial_flash_qspi_write(addr, len, buf) on a working device
Written(f, addr, len, buf) ==
    [a \in FlashAddrs |-> IF InRange(a, addr, len) THEN buf[a - addr] ELSE f[a]]

\* cy_serial_flash_qspi_read(addr, len, buf) on a working device
Stored(f, addr) ==
    [i \in PacketIdx |-> IF addr + i \in FlashAddrs THEN f[addr + i] ELSE 255]

\* every external call succeeds and the device works
WellBehaved == fault = NoFault

\* the status the call at position op returns
Status(op) ==
    IF fault.at = op /\ fault.kind = "status" THEN fault.code ELSE CY_RSLT_SUCCESS

\* the device content an erase leaves
EraseOutcome(f, addr, len) ==
    IF fault.at = "erase" /\ fault.kind = "noop" THEN f ELSE Erased(f, addr, len)

\* the device content a write leaves
WriteOutcome(f, addr, len, buf) ==
    IF fault.at = "write" /\ fault.kind = "noop" THEN f
    ELSE IF fault.at = "write" /\ fault.kind = "stuck"
    THEN Written(f, addr, len, [buf EXCEPT ![0] = 128])
    ELSE Written(f, addr, len, buf)

\* the bytes the read at position op delivers
ReadOutcome(op, f, addr) ==
    IF fault.at = op /\ fault.kind = "zeros" THEN ZeroBuffer
    ELSE IF fault.at = op /\ fault.kind = "lastbyte"
    THEN [Stored(f, addr) EXCEPT ![PACKET_SIZE - 1] = (@ + 1) % 256]
    ELSE Stored(f, addr)

-----------------------------------------------------------------------------
(* Program states of the specification's state machine; HALTED is the halt
   of a failed CY_ASSERT, EXITED a main that left its last loop (no step of
   main.c leads there) *)

BlinkPcs == {"blink_toggle", "blink_delay"}

ProgState ==
    IF pc = "failed" THEN "FAILED"
    ELSE IF pc \in BlinkPcs THEN "IDLE_BLINK"
    ELSE IF pc = "assert_halt" THEN "HALTED"
    ELSE IF pc = "exit" THEN "EXITED"
    ELSE "RUNNING"

Call(op, addr, len, status) ==
    [op |-> op, addr |-> addr, len |-> len, status |-> status]

\* the body of check_status / check_address after the test: either the FAIL
\* block, LED on and while(true), or return to main at position next
HaltOrContinue(fails, message, code, next) ==
    IF fails
    THEN /\ pc' = "failed"
         /\ led' = "ON"
         /\ failMsg' = message
         /\ failCode' = code
    ELSE /\ pc' = next
         /\ UNCHANGED << led, failMsg, failCode >>

-----------------------------------------------------------------------------
Init ==
    /\ pc = "bsp_init"
    /\ led = "OFF"
    /\ flash \in InitialFlash
    /\ flash0 = flash
    /\ txBuffer = ZeroBuffer
    /\ rxBuffer = ZeroBuffer
    /\ extMemAddress = 0
    /\ sectorSize = 0
    /\ xip = FALSE
    /\ failMsg = ""
    /\ failCode = 0
    /\ dump = << >>
    /\ calls = << >>
    /\ hiWordAddr \in SymbolAddrs
    /\ funcAddr \in SymbolAddrs
    /\ fault \in Faults
    /\ debugBuild \in BOOLEAN
    /\ run = 1
    /\ prevFlash = flash
    /\ prevOutcome = "NONE"
    /\ prevCalls = << >>

-----------------------------------------------------------------------------
(* main, one action per step *)

\* result = cybsp_init(); CY_ASSERT(result == CY_RSLT_SUCCESS);
BspInit ==
    /\ pc = "bsp_init"
    /\ LET result == Status("bsp") IN
         pc' = IF CY_ASSERT(result = CY_RSLT_SUCCESS)
               THEN "assert_halt" ELSE "board_setup"
    /\ UNCHANGED << led, flash, txBuffer, rxBuffer, extMemAddress, sectorSize,
                    xip, failMsg, failCode, dump, calls, env >>

\* __enable_irq, cy_retarget_io_init, cyhal_gpio_init(.., CYBSP_LED_STATE_OFF),
\* the banner
BoardSetup ==
    /\ pc = "board_setup"
    /\ led' = "OFF"
    /\ pc' = "qspi_init"
    /\ UNCHANGED << flash, txBuffer, rxBuffer, extMemAddress, sectorSize, xip,
                    failMsg, failCode, dump, calls, env >>

\* result = cy_serial_flash_qspi_init(...); check_status(..., result);
QspiInit ==
    /\ pc = "qspi_init"
    /\ LET result == Status("init") IN
         /\ calls' = Append(calls, Call("init", 0, 0, result))
         /\ HaltOrContinue(check_status(result),
                           "Serial Flash initialization failed", result,
                           "init_buffers")
    /\ UNCHANGED << flash, txBuffer, rxBuffer, extMemAddress, sectorSize, xip,
                    dump, env >>

\* the loop that seeds txBuffer and clears rxBuffer
InitBuffers ==
    /\ pc = "init_buffers"
    /\ txBuffer' = TxPattern
    /\ rxBuffer' = ZeroBuffer
    /\ pc' = "set_address"
    /\ UNCHANGED << led, flash, extMemAddress, sectorSize, xip, failMsg,
                    failCode, dump, calls, env >>

\* sectorSize = cy_serial_flash_qspi_get_erase_size(0); extMemAddress = sectorSize;
SetAddress ==
    /\ pc = "set_address"
    /\ sectorSize' = SectorSize
    /\ extMemAddress' = TargetAddress(SectorSize)
    /\ pc' = "erase"
    /\ UNCHANGED << led, flash, txBuffer, rxBuffer, xip, failMsg, failCode,
                    dump, calls, env >>

\* result = cy_serial_flash_qspi_erase(extMemAddress, sectorSize); check_status
Erase ==
    /\ pc = "erase"
    /\ LET result == Status("erase") IN
         /\ calls' = Append(calls, Call("erase", extMemAddress, sectorSize, result))
         /\ HaltOrContinue(check_status(result), "Erasing memory failed",
                           result, "read_after_erase")
    /\ flash' = EraseOutcome(flash, extMemAddress, sectorSize)
    /\ UNCHANGED << txBuffer, rxBuffer, extMemAddress, sectorSize, xip, dump,
                    env >>

\* result = cy_serial_flash_qspi_read(extMemAddress, PACKET_SIZE, rxBuffer);
\* check_status; print_array("Received Data", rxBuffer, PACKET_SIZE)
ReadAfterErase ==
    /\ pc = "read_after_erase"
    /\ LET result == Status("read1")
           data == ReadOutcome("read1", flash, extMemAddress)
       IN
         /\ rxBuffer' = data
         /\ calls' = Append(calls, Call("read", extMemAddress, PACKET_SIZE, result))
         /\ HaltOrContinue(check_status(ReadAfterEraseStatus(result, data)),
                           "Reading memory failed", result, "write")
         /\ dump' = IF check_status(ReadAfterEraseStatus(result, data))
                    THEN dump ELSE Append(dump, data)
    /\ UNCHANGED << flash, txBuffer, extMemAddress, sectorSize, xip, env >>

\* result = cy_serial_flash_qspi_write(extMemAddress, PACKET_SIZE, txBuffer);
\* check_status; print_array("Written Data", txBuffer, PACKET_SIZE)
Write ==
    /\ pc = "write"
    /\ LET result == Status("write") IN
         /\ calls' = Append(calls, Call("write", extMemAddress, PACKET_SIZE, result))
         /\ HaltOrContinue(check_status(result), "Writing to memory failed",
                           result, "read_back")
         /\ dump' = IF check_status(result) THEN dump ELSE Append(dump, txBuffer)
    /\ flash' = WriteOutcome(flash, extMemAddress, PACKET_SIZE, txBuffer)
    /\ UNCHANGED << txBuffer, rxBuffer, extMemAddress, sectorSize, xip, env >>

\* result = cy_serial_flash_qspi_read(extMemAddress, PACKET_SIZE, rxBuffer);
\* check_status; print_array("Received Data", rxBuffer, PACKET_SIZE)
ReadBack ==
    /\ pc = "read_back"
    /\ LET result == Status("read2")
           data == ReadOutcome("read2", flash, extMemAddress)
       IN
         /\ rxBuffer' = data
         /\ calls' = Append(calls, Call("read", extMemAddress, PACKET_SIZE, result))
         /\ HaltOrContinue(check_status(result), "Reading memory failed",
                           result, "compare")
         /\ dump' = IF check_status(result) THEN dump ELSE Append(dump, data)
    /\ UNCHANGED << flash, txBuffer, extMemAddress, sectorSize, xip, env >>

\* check_status(..., memcmp(txBuffer, rxBuffer, PACKET_SIZE)); SUCCESS banner
Compare ==
    /\ pc = "compare"
    /\ \E result \in CompareStatus(txBuffer, rxBuffer) :
         /\ calls' = Append(calls, Call("compare", 0, PACKET_SIZE, result))
         /\ HaltOrContinue(check_status(result),
                           "Read data does not match with written data. Read/Write operation failed.",
                           result, "enable_xip")
    /\ UNCHANGED << flash, txBuffer, rxBuffer, extMemAddress, sectorSize, xip,
                    dump, env >>

\* cy_serial_flash_qspi_enable_xip(true);
EnableXip ==
    /\ pc = "enable_xip"
    /\ xip' = TRUE
    /\ calls' = Append(calls, Call("enable_xip", 0, 0, 0))
    /\ pc' = "check_string"
    /\ UNCHANGED << led, flash, txBuffer, rxBuffer, extMemAddress, sectorSize,
                    failMsg, failCode, dump, env >>

\* addr = (uint32_t)&hi_word; check_address(..., addr); print the string
CheckString ==
    /\ pc = "check_string"
    /\ calls' = Append(calls, Call("check_string", hiWordAddr, 0, 0))
    /\ HaltOrContinue(check_address(BaseAddress, hiWordAddr),
                      "String not found in external memory.", hiWordAddr,
                      "check_function")
    /\ UNCHANGED << flash, txBuffer, rxBuffer, extMemAddress, sectorSize, xip,
                    dump, env >>

\* addr = (uint32_t)&print_from_external_memory; check_address(..., addr);
\* call the function; SUCCESS banner
CheckFunction ==
    /\ pc = "check_function"
    /\ calls' = Append(calls, Call("check_function", funcAddr, 0, 0))
    /\ HaltOrContinue(check_address(BaseAddress, funcAddr),
                      "Function not found in external memory.", funcAddr,
                      AfterPlacement)
    /\ UNCHANGED << flash, txBuffer, rxBuffer, extMemAddress, sectorSize, xip,
                    dump, env >>

\* for(;;) { cyhal_gpio_toggle(CYBSP_USER_LED);
BlinkToggle ==
    /\ pc = "blink_toggle"
    /\ led' = Toggled(led)
    /\ pc' = "blink_delay"
    /\ UNCHANGED << flash, txBuffer, rxBuffer, extMemAddress, sectorSize, xip,
                    failMsg, failCode, dump, calls, env >>

\*            cyhal_system_delay_ms(LED_TOGGLE_DELAY_MSEC); }
BlinkDelay ==
    /\ pc = "blink_delay"
    /\ pc' = AfterDelay
    /\ UNCHANGED << led, flash, txBuffer, rxBuffer, extMemAddress, sectorSize,
                    xip, failMsg, failCode, dump, calls, env >>

Next ==
    \/ BspInit
    \/ BoardSetup
    \/ QspiInit
    \/ InitBuffers
    \/ SetAddress
    \/ Erase
    \/ ReadAfterErase
    \/ Write
    \/ ReadBack
    \/ Compare
    \/ EnableXip
    \/ CheckString
    \/ CheckFunction
    \/ BlinkToggle
    \/ BlinkDelay

Spec == Init /\ [][Next]_vars

\* the single control flow always takes its next step
FairSpec == Spec /\ WF_vars(Next)

-----------------------------------------------------------------------------
(* A second boot: the device keeps its content, the program starts over *)

Reset ==
    /\ ProgState # "RUNNING"
    /\ run < MaxRuns
    /\ run' = run + 1
    /\ prevFlash' = flash
    /\ prevOutcome' = ProgState
    /\ prevCalls' = calls
    /\ pc' = "bsp_init"
    /\ led' = "OFF"
    /\ txBuffer' = ZeroBuffer
    /\ rxBuffer' = ZeroBuffer
    /\ extMemAddress' = 0
    /\ sectorSize' = 0
    /\ xip' = FALSE
    /\ failMsg' = ""
    /\ failCode' = 0
    /\ dump' = << >>
    /\ calls' = << >>
    /\ UNCHANGED << flash, hiWordAddr, funcAddr, fault, debugBuild, flash0 >>

NextRerun == Next \/ Reset

SpecRerun == Init /\ [][NextRerun]_vars

-----------------------------------------------------------------------------
(* Vocabulary of the properties *)

ExpectedOrder ==
    << "init", "erase", "read", "write", "read", "compare", "enable_xip",
       "check_string", "check_function" >>

CheckedOps == {"init", "erase", "read", "write", "compare"}

PlacementOps == {"check_string", "check_function"}

HasCall(op) == \E i \in DOMAIN calls : calls[i].op = op

LastCall == calls[Len(calls)]

\* a checked driver status was nonzero, or the comparison met a mismatch
CheckedFailure ==
    \/ \E i \in DOMAIN calls : calls[i].op \in CheckedOps /\ calls[i].status # 0
    \/ HasCall("compare") /\ txBuffer # rxBuffer

\* the expected pattern, pattern[i] = i mod 256
Pattern == [i \in PacketIdx |-> i % 256]

\* the second erase sector of the device
InSecondSector(a) == SectorSize <= a /\ a < 2 * SectorSize

\* the memory-mapped window [base, base + device size)
InWindow(addr) ==
    ~ULess(addr, BaseAddress) /\ ULess(addr, BaseAddress + FlashSize)

\* a placement check has just run
PlacementChecked == Len(calls) > 0 /\ LastCall.op \in PlacementOps

-----------------------------------------------------------------------------
\* C1: a nonzero checked status (flash init, erase, either read, write) or a
\* mismatch of the byte comparison puts the program into FAILED with the LED
\* ON; in FAILED no driver operation, placement check, flash change or LED
\* change ever happens again and FAILED is never left.
C1_FailureHalts ==
    /\ [](CheckedFailure => (pc = "failed" /\ led = "ON" /\ failMsg # ""))
    /\ [][pc = "failed" =>
            (pc' = "failed" /\ led' = "ON" /\ calls' = calls
             /\ flash' = flash /\ xip' = xip)]_vars

\* the post-write read reported an error: FAILED, LED on, XIP never enabled
C1_Witness ==
    /\ pc = "failed"
    /\ led = "ON"
    /\ Len(calls) = 5
    /\ LastCall.op = "read"
    /\ LastCall.status # 0
    /\ ~HasCall("enable_xip")
    /\ ~xip

\* C2: the operations executed are always a prefix of init, erase, read,
\* write, read, compare, enable_xip, string check, function check; and XIP
\* is enabled only after all six earlier steps returned zero and the written
\* and received buffers were found equal.
C2_StrictOrder ==
    /\ Len(calls) <= Len(ExpectedOrder)
    /\ \A i \in DOMAIN calls : calls[i].op = ExpectedOrder[i]
    /\ (HasCall("enable_xip") \/ xip) =>
          /\ Len(calls) >= 7
          /\ \A i \in 1 .. 6 : calls[i].status = 0
          /\ txBuffer = rxBuffer
          /\ txBuffer = Pattern

\* XIP has just been enabled after a passed self-test
C2_Witness ==
    /\ pc = "check_string"
    /\ xip
    /\ Len(calls) = 7
    /\ LastCall.op = "enable_xip"

\* every status was zero, the buffers agree, XIP is on, both symbols passed
AllSucceeded ==
    /\ Len(calls) = 9
    /\ \A i \in DOMAIN calls : calls[i].status = 0
    /\ txBuffer = rxBuffer
    /\ xip
    /\ ~ULess(hiWordAddr, BaseAddress)
    /\ ~ULess(funcAddr, BaseAddress)
    /\ failMsg = ""

\* C3: the blink loop is entered, and the LED toggled, only after the whole
\* self-test and both placement checks succeeded; outside IDLE_BLINK the LED
\* changes only when a failure turns it on.
C3_BlinkOnlyAfterSuccess ==
    /\ [](ProgState = "IDLE_BLINK" => AllSucceeded)
    /\ [][led' # led =>
            \/ (pc = "blink_toggle" /\ AllSucceeded)
            \/ (pc' = "failed" /\ led' = "ON")]_vars

\* the LED has just been toggled for the first time
C3_Witness == pc = "blink_delay" /\ led = "ON" /\ AllSucceeded

\* C4: a placement check fails (FAILED, LED on) exactly when the address is
\* below the base address in the unsigned order; the base address itself
\* is accepted and execution continues.
C4_CheckAddressBoundary ==
    PlacementChecked =>
        /\ LastCall.addr = (IF LastCall.op = "check_string"
                            THEN hiWordAddr ELSE funcAddr)
        /\ (pc = "failed" /\ led = "ON") <=> ULess(LastCall.addr, BaseAddress)
        /\ pc = "failed" => failCode = LastCall.addr
        /\ LastCall.addr = BaseAddress => pc # "failed"

\* the string symbol sits exactly at the base address and was accepted
C4_Witness ==
    /\ PlacementChecked
    /\ LastCall.op = "check_string"
    /\ LastCall.addr = BaseAddress
    /\ pc = "check_function"

\* C5 as stated: every symbol address outside the window
\* [base, base + device size) makes the placement check fail.
C5_OutsideWindowFails ==
    (PlacementChecked /\ ~InWindow(LastCall.addr)) => pc = "failed"

\* C5 as the code has it: an address below the base fails the check with the
\* placement message; an address at or above the end of the window passes it.
C5_OnlyLowerBoundChecked ==
    PlacementChecked =>
        /\ ULess(LastCall.addr, BaseAddress) =>
              /\ pc = "failed"
              /\ failMsg \in { "String not found in external memory.",
                               "Function not found in external memory." }
        /\ ~ULess(LastCall.addr, BaseAddress + FlashSize) => pc # "failed"

\* the string symbol sits just above the window and the check passed
C5_Witness ==
    /\ PlacementChecked
    /\ LastCall.op = "check_string"
    /\ LastCall.addr = BaseAddress + FlashSize
    /\ pc = "check_function"

\* the linker placed both symbols at or above the base address
SymbolsPlaced ==
    ~ULess(hiWordAddr, BaseAddress) /\ ~ULess(funcAddr, BaseAddress)

SelfTestRan(cs) == Len(cs) >= 5

\* C7: with a well-behaved device, when the self-test sequence has run in
\* two boots in succession, the device holds the same content after the
\* second as after the first, and the second boot ends as the first did.
C7_Idempotent ==
    ( /\ WellBehaved
      /\ run > 1
      /\ SelfTestRan(prevCalls)
      /\ SelfTestRan(calls) ) =>
        /\ flash = prevFlash
        /\ ProgState # "RUNNING" => ProgState = prevOutcome

\* a second boot finished on a device whose content the first boot changed
C7_Witness ==
    /\ WellBehaved
    /\ run = 2
    /\ SelfTestRan(prevCalls)
    /\ SelfTestRan(calls)
    /\ ProgState = "IDLE_BLINK"
    /\ prevOutcome = "IDLE_BLINK"
    /\ flash = prevFlash
    /\ flash # flash0

\* C8: every erase request is for exactly the second sector and every write
\* request for exactly the 64 bytes at its start; no byte outside the second
\* sector ever differs from its content at boot; a write changes no byte
\* outside its 64; and the device is not changed, nor an erase or write
\* issued, once XIP is enabled.
C8_MutationConfined ==
    /\ [](/\ \A a \in FlashAddrs : ~InSecondSector(a) => flash[a] = flash0[a]
          /\ \A i \in DOMAIN calls :
                /\ calls[i].op = "erase" =>
                      (calls[i].addr = SectorSize /\ calls[i].len = SectorSize)
                /\ calls[i].op = "write" =>
                      (calls[i].addr = SectorSize /\ calls[i].len = PACKET_SIZE)
                /\ calls[i].op = "enable_xip" =>
                      \A j \in DOMAIN calls :
                          calls[j].op \in {"erase", "write"} => j < i)
    /\ [][pc = "write" =>
            \A a \in FlashAddrs :
                ~(SectorSize <= a /\ a < SectorSize + PACKET_SIZE) =>
                    flash'[a] = flash[a]]_vars
    /\ [][xip => flash' = flash]_vars

\* the write went through on a device holding an image: the second sector
\* changed, the rest did not
C8_Witness ==
    /\ pc = "read_back"
    /\ flash0 = ImageFlash
    /\ flash # flash0
    /\ flash[0] = flash0[0]
    /\ flash[SectorSize] = 0
    /\ flash[SectorSize + PACKET_SIZE] = 255

\* C9: the read after the erase is judged by its status alone: it ends in
\* FAILED exactly when the status is nonzero, and with a zero status the
\* program goes on to the write whatever bytes were delivered.
C9_ReadAfterEraseStatusOnly ==
    (Len(calls) = 3 /\ LastCall.op = "read") =>
        /\ pc = "failed" <=> LastCall.status # 0
        /\ LastCall.status = 0 =>
              (pc = "write" /\ Len(dump) = 1 /\ dump[1] = rxBuffer)

\* the read after the erase delivered bytes other than 0xFF with status zero
\* and the program is about to write
C9_Witness ==
    /\ Len(calls) = 3
    /\ LastCall.op = "read"
    /\ LastCall.status = 0
    /\ rxBuffer # ErasedBuffer
    /\ pc = "write"

\* terminal states stay, main never returns, the blink loop keeps toggling
TerminalBehaviour ==
    /\ [][ProgState = "FAILED" => (ProgState' = "FAILED" /\ led' = led)]_vars
    /\ [][ProgState = "IDLE_BLINK" => ProgState' = "IDLE_BLINK"]_vars
    /\ [](ProgState # "EXITED")
    /\ [](ProgState = "IDLE_BLINK" => (<>(led = "ON") /\ <>(led = "OFF")))

\* C10 as stated: every run eventually reaches FAILED or IDLE_BLINK, terminal
\* states are never left, main never returns, IDLE_BLINK toggles the LED for
\* ever and FAILED never toggles it.
C10_EveryRunTerminates ==
    /\ <>(ProgState \in {"FAILED", "IDLE_BLINK"})
    /\ TerminalBehaviour

\* the board-initialisation assertion does not stop the program: cybsp_init
\* succeeds, or assertions are compiled out
AssertionPasses == ~(debugBuild /\ fault.at = "bsp")

\* C10 as the code has it: every run whose board-initialisation assertion
\* passes eventually reaches FAILED or IDLE_BLINK, terminal states are never
\* left, main never returns, IDLE_BLINK toggles the LED for ever and FAILED
\* never toggles it; a run whose assertion fails stops there, before any
\* driver call, in neither state.
C10_RunsPastAssertTerminate ==
    /\ AssertionPasses => <>(ProgState \in {"FAILED", "IDLE_BLINK"})
    /\ [](ProgState = "HALTED" => (~AssertionPasses /\ calls = << >>))
    /\ [](~AssertionPasses => ProgState \in {"RUNNING", "HALTED"})
    /\ TerminalBehaviour

\* the blink loop has toggled the LED on and off again
C10_Witness ==
    /\ ProgState = "IDLE_BLINK"
    /\ pc = "blink_delay"
    /\ led = "OFF"

====
